---- MODULE Spec2Model ----
(***************************************************************************)
(* LogLion analyzers: the sequential funnel analyzer (FunnelAnalyzer) and  *)
(* the pattern counter (CountAnalyzer).                                    *)
(*                                                                         *)
(* Strings are sequences of one-character strings.  A regular expression   *)
(* is modelled for the literal fragment over the alphabet {a, b, [}: a     *)
(* pattern that contains "[" has no closing bracket and does not compile;  *)
(* any other pattern is a literal and MatchString is unanchored            *)
(* containment, as regexp.MatchString is for a literal.                    *)
(***************************************************************************)
EXTENDS Integers, Sequences, FiniteSets, TLC

\* ------------------------------------------------------------------ bounds
MaxSteps == 2
MaxEntries == 4
MaxLimit == 2
MaxCalls == 2
MaxPatterns == 2

\* ------------------------------------------------------------ strings
sA == <<"a">>
sB == <<"b">>
sBad == <<"[">>
sEmpty == <<>>

\* regexp.Compile: the error result for a pattern with an unclosed bracket.
Compile(pattern) ==
    IF \E i \in DOMAIN pattern : pattern[i] = "["
    THEN [err |-> TRUE, re |-> sEmpty]
    ELSE [err |-> FALSE, re |-> pattern]

\* (*Regexp).MatchString for a literal: the literal occurs somewhere in s.
MatchString(re, s) ==
    \E i \in 0..(Len(s) - Len(re)) : SubSeq(s, i + 1, i + Len(re)) = re

\* ------------------------------------------------------------ entries
\* Dynamic values of map[string]interface{}; Absent is a missing key.
Absent == [kind |-> "absent", s |-> sEmpty]
Number == [kind |-> "number", s |-> sEmpty]
Str(s) == [kind |-> "string", s |-> s]

\* parser.LogEntry: Message and EventData (HasData = FALSE is a nil map).
PlainEntry(msg) ==
    [Message |-> msg, HasData |-> FALSE, EventData |-> [event |-> Absent, user |-> Absent]]
DataEntry(msg, ev, user) ==
    [Message |-> msg, HasData |-> TRUE, EventData |-> [event |-> ev, user |-> user]]

\* config.Step.RequiredProperties: NoProp is a key that is not required.
NoProp == [has |-> FALSE, pat |-> sEmpty]
Prop(p) == [has |-> TRUE, pat |-> p]
PropKeys == {"event", "user"}
NoProps == [event |-> NoProp, user |-> NoProp]
LenProps(props) == Cardinality({k \in PropKeys : props[k].has})

\* The entries and step bodies the scans are run on: an entry without
\* structured data and message "b", and one whose "event" field is "a".
EntryPool ==
    { PlainEntry(sB), DataEntry(sB, Str(sA), Str(sA)) }

StepPool ==
    { [EventPattern |-> sA, RequiredProperties |-> NoProps],
      [EventPattern |-> sB, RequiredProperties |-> NoProps],
      [EventPattern |-> sA, RequiredProperties |-> [event |-> NoProp, user |-> Prop(sBad)]],
      [EventPattern |-> sBad, RequiredProperties |-> NoProps] }

PatternPool == {sA, sB, sBad}

SeqsUpTo(S, n) == UNION {[1..k -> S] : k \in 0..n}

\* config.Step with its name; names are the positions, so they are unique.
MkSteps(bodies) ==
    [i \in 1..Len(bodies) |->
        [Name |-> i, EventPattern |-> bodies[i].EventPattern,
         RequiredProperties |-> bodies[i].RequiredProperties]]

Limits == (-1)..MaxLimit

\* ------------------------------------------------------------ matching
checkRequiredPropertiesSkippingMissing(eventData, requiredProps) ==
    \A key \in PropKeys :
        (requiredProps[key].has /\ eventData[key].kind # "absent") =>
            /\ eventData[key].kind = "string"
            /\ ~Compile(requiredProps[key].pat).err
            /\ MatchString(Compile(requiredProps[key].pat).re, eventData[key].s)

checkRequiredProperties(eventData, requiredProps) ==
    \A key \in PropKeys :
        requiredProps[key].has =>
            /\ eventData[key].kind # "absent"
            /\ eventData[key].kind = "string"
            /\ ~Compile(requiredProps[key].pat).err
            /\ MatchString(Compile(requiredProps[key].pat).re, eventData[key].s)

eventOrMessageMatches(entry, eventRegex) ==
    \/ /\ entry.EventData["event"].kind = "string"
       /\ MatchString(eventRegex, entry.EventData["event"].s)
    \/ MatchString(eventRegex, entry.Message)

\* The event/message sub-match of an entry with EventData (lines 261-284).
eventFieldMatches(entry, eventRegex) ==
    IF entry.EventData["event"].kind # "absent"
    THEN IF entry.EventData["event"].kind = "string"
         THEN MatchString(eventRegex, entry.EventData["event"].s)
         ELSE FALSE
    ELSE MatchString(eventRegex, entry.Message)

matchUnstructuredIgnoringProps(entry, step, eventRegex) ==
    MatchString(eventRegex, entry.Message)

\* The branch for an entry whose EventData is nil (lines 285-295).
matchUnstructured(entry, step, eventRegex) ==
    IF ~MatchString(eventRegex, entry.Message)
    THEN FALSE
    ELSE LenProps(step.RequiredProperties) = 0

\* eventMatchesStep after the pattern compiled (lines 260-299).
matchFields(entry, step, eventRegex) ==
    IF entry.HasData
    THEN IF ~eventFieldMatches(entry, eventRegex)
         THEN FALSE
         ELSE checkRequiredProperties(entry.EventData, step.RequiredProperties)
    ELSE matchUnstructured(entry, step, eventRegex)

eventMatchesStepIgnoringErr(entry, step) ==
    matchFields(entry, step, Compile(step.EventPattern).re)

eventMatchesStep(entry, step) ==
    LET c == Compile(step.EventPattern) IN
    IF c.err THEN FALSE ELSE matchFields(entry, step, c.re)

\* ------------------------------------------------------------ state
VARIABLES
    fa,               \* the *FunnelAnalyzer: its config's steps, or nil
    entries,          \* the entries slice the caller passes
    max,              \* the limit argument of AnalyzeFunnel
    pc,               \* position in the running call
    entryIndex,       \* number of entries the loop has consumed
    stepCounts,       \* AnalyzeFunnel local
    matchedEvents,    \* AnalyzeFunnel local
    currentStep,      \* AnalyzeFunnel local (0-based cursor)
    conversionsFound, \* AnalyzeFunnel local
    examined,         \* indices of the entries passed to eventMatchesStep
    result,           \* the returned *FunnelResult
    firstResult,      \* what the first call on this analyzer returned
    calls,            \* calls made on this analyzer
    eventPatterns,    \* the argument of NewCountAnalyzer
    ca,               \* the *CountAnalyzer, or nil
    caErr,            \* the error NewCountAnalyzer returned
    counts,           \* AnalyzeCount local
    countResult,      \* the returned *CountResult
    firstCountResult, \* what the first AnalyzeCount call returned
    matchEntry,       \* the entry a single match call is given
    matchStep,        \* the step a single match call is given
    matchCalled,      \* which of the two match functions have returned
    stepMatched,      \* what eventMatchesStep returned
    patternMatched,   \* what eventMatchesPattern returned
    plainParser,      \* the *PlainParser, or nil
    parserPc,         \* position in the running parser call
    parseArg,         \* the logLine argument of a direct Parse call
    parseResult,      \* what that Parse call returned
    reader,           \* the lines of the file or stream ParseReader scans
    ioFailure,        \* "open" or "read" once the file or stream has failed
    lineCount,        \* ParseReader local: lines the scanner has delivered
    parsedEntries,    \* ParseReader local: entries
    readerResult,     \* what ParseFile / ParseReader returned
    funnelConfig,     \* the *FunnelConfig Validate is called on
    validatePc,       \* position in the Validate call
    validateResult    \* the error Validate returned, and the step it names

funnelVars ==
    <<fa, max, stepCounts, matchedEvents, currentStep, conversionsFound,
      examined, result, firstResult>>
countVars == <<eventPatterns, ca, caErr, counts, countResult, firstCountResult>>
analyzerVars == <<entries, pc, entryIndex, calls, funnelVars, countVars>>
matchVars == <<matchEntry, matchStep, matchCalled, stepMatched, patternMatched>>
parserVars ==
    <<plainParser, parserPc, parseArg, parseResult, reader, ioFailure, lineCount,
      parsedEntries, readerResult>>
validateVars == <<funnelConfig, validatePc, validateResult>>
otherVars == <<matchVars, parserVars, validateVars>>
vars == <<analyzerVars, otherVars>>

NilFA == [nil |-> TRUE, Steps |-> <<>>]
NoResult ==
    [valid |-> FALSE, TotalEventsAnalyzed |-> 0, FunnelCompleted |-> FALSE,
     Steps |-> <<>>, DropOffs |-> <<>>]
NilCA == [nil |-> TRUE, patterns |-> <<>>]
NoCountResult == [valid |-> FALSE, TotalEventsAnalyzed |-> 0, PatternCounts |-> <<>>]

NumSteps == Len(fa.Steps)

\* ------------------------------------------------------------ numbers
RECURSIVE GCD(_, _)
GCD(a, b) == IF b = 0 THEN a ELSE GCD(b, a % b)

\* float64(n) / float64(d) * 100.0 as the exact fraction in lowest terms.
Zero == [num |-> 0, den |-> 1]
Percent(n, d) ==
    LET g == GCD(n * 100, d) IN [num |-> (n * 100) \div g, den |-> d \div g]

\* ------------------------------------------------------------ funnel
FunnelInit ==
    /\ fa = NilFA
    /\ entries = <<>>
    /\ max = 0
    /\ pc = "new"
    /\ entryIndex = 0
    /\ stepCounts = <<>>
    /\ matchedEvents = 0
    /\ currentStep = 0
    /\ conversionsFound = 0
    /\ examined = {}
    /\ result = NoResult
    /\ firstResult = NoResult
    /\ calls = 0

CountIdle ==
    /\ eventPatterns = <<>>
    /\ ca = NilCA
    /\ caErr = FALSE
    /\ counts = <<>>
    /\ countResult = NoCountResult
    /\ firstCountResult = NoCountResult

NewFunnelAnalyzer ==
    /\ pc = "new"
    /\ \E bodies \in SeqsUpTo(StepPool, MaxSteps) :
          fa' = [nil |-> FALSE, Steps |-> MkSteps(bodies)]
    /\ pc' = "ready"
    /\ UNCHANGED otherVars
    /\ UNCHANGED <<entries, entryIndex, calls, max, stepCounts, matchedEvents,
                   currentStep, conversionsFound, examined, result, firstResult,
                   countVars>>

\* AnalyzeFunnel up to the first loop iteration (lines 47-89, 119-122).
KeptCounts(n) == IF Len(stepCounts) = n THEN stepCounts ELSE [i \in 1..n |-> 0]

InitialCounts(n) == [i \in 1..n |-> 0]

\* The result for no entries (lines 54-63).
EmptyInputWithStepRecords ==
    [valid |-> TRUE, TotalEventsAnalyzed |-> 0, FunnelCompleted |-> FALSE,
     Steps |-> [i \in 1..NumSteps |->
                  [Name |-> fa.Steps[i].Name, EventCount |-> 0, Percentage |-> Zero]],
     DropOffs |-> <<>>]

EmptyFunnelResult ==
    [valid |-> TRUE, TotalEventsAnalyzed |-> 0, FunnelCompleted |-> FALSE,
     Steps |-> <<>>, DropOffs |-> <<>>]

EnterAnalyzeFunnel(es, m) ==
    /\ entries' = es
    /\ max' = m
    /\ calls' = calls + 1
    /\ entryIndex' = 0
    /\ examined' = {}
    /\ IF Len(es) = 0
       THEN /\ result' = EmptyFunnelResult
            /\ pc' = "done"
            /\ UNCHANGED <<stepCounts, matchedEvents, currentStep, conversionsFound>>
       ELSE /\ result' = NoResult
            /\ stepCounts' = InitialCounts(NumSteps)
            /\ matchedEvents' = 0
            /\ currentStep' = 0
            /\ conversionsFound' = 0
            /\ pc' = IF m = 0 THEN "mode1" ELSE "mode2"

AnalyzeFunnel ==
    /\ pc = "ready"
    /\ \E es \in SeqsUpTo(EntryPool, MaxEntries), m \in Limits :
          EnterAnalyzeFunnel(es, m)
    /\ UNCHANGED otherVars
    /\ UNCHANGED <<fa, firstResult, countVars>>

\* A second call on the same analyzer with the same arguments.
AnalyzeFunnelAgain ==
    /\ pc = "done"
    /\ ~fa.nil
    /\ calls < MaxCalls
    /\ firstResult' = result
    /\ EnterAnalyzeFunnel(entries, max)
    /\ UNCHANGED otherVars
    /\ UNCHANGED <<fa, countVars>>

\* The entry is tried against the step at the cursor only (lines 94-95, 139-140).
anyStepMatches(entry, cur) ==
    \E i \in 1..NumSteps : eventMatchesStep(entry, fa.Steps[i])

cursorMatches(entry, cur) == eventMatchesStep(entry, fa.Steps[cur + 1])

\* Mode 1: the cursor after a match (lines 98, 109-114).
AdvanceNoReset(cur) == cur + 1

AdvanceResetPastEnd(cur) == IF cur + 1 > NumSteps THEN 0 ELSE cur + 1

AdvanceOrReset(cur) == IF cur + 1 >= NumSteps THEN 0 ELSE cur + 1

\* Mode 2: the stop test (lines 125, 134).
LimitExceeded(conv) == conv > max

LimitReachedEarly(conv) == conv + 1 >= max

LimitNeverReached(conv) == FALSE

LimitReached(conv) == conv >= max

CountMatchAndEarlier(cnts, cur) ==
    [i \in 1..Len(cnts) |-> IF i <= cur + 1 THEN cnts[i] + 1 ELSE cnts[i]]

\* stepCounts[currentStep]++ (lines 96, 141).
CountMatch(cnts, cur) == [cnts EXCEPT ![cur + 1] = @ + 1]

\* One iteration of the mode 1 loop (lines 91-117).
Mode1Step ==
    /\ pc = "mode1"
    /\ entryIndex < Len(entries)
    /\ entryIndex' = entryIndex + 1
    /\ pc' = IF entryIndex + 1 = Len(entries) THEN "finish" ELSE "mode1"
    /\ IF currentStep < NumSteps
       THEN /\ examined' = examined \cup {entryIndex + 1}
            /\ IF cursorMatches(entries[entryIndex + 1], currentStep)
               THEN /\ stepCounts' = CountMatch(stepCounts, currentStep)
                    /\ matchedEvents' = matchedEvents + 1
                    /\ currentStep' = AdvanceOrReset(currentStep)
                    /\ conversionsFound' =
                          IF currentStep + 1 >= NumSteps
                          THEN conversionsFound + 1 ELSE conversionsFound
               ELSE UNCHANGED <<stepCounts, matchedEvents, currentStep, conversionsFound>>
       ELSE UNCHANGED <<examined, stepCounts, matchedEvents, currentStep, conversionsFound>>
    /\ UNCHANGED otherVars
    /\ UNCHANGED <<fa, entries, max, calls, result, firstResult, countVars>>

\* One iteration of the mode 2 loop (lines 124-153).
Mode2Step ==
    /\ pc = "mode2"
    /\ entryIndex < Len(entries)
    /\ LET reset == ~LimitReached(conversionsFound) /\ currentStep >= NumSteps
           conv  == IF reset THEN conversionsFound + 1 ELSE conversionsFound
           cur   == IF reset THEN 0 ELSE currentStep
       IN  /\ conversionsFound' = conv
           /\ currentStep' =
                 IF ~LimitReached(conv) /\ cur < NumSteps
                    /\ cursorMatches(entries[entryIndex + 1], cur)
                 THEN cur + 1 ELSE cur
           /\ IF LimitReached(conv)
              THEN \* break
                   /\ pc' = "mode2end"
                   /\ UNCHANGED <<entryIndex, examined, stepCounts, matchedEvents>>
              ELSE IF cur >= NumSteps
              THEN \* fa.config.Funnel.Steps[currentStep]: index out of range
                   /\ pc' = "panic"
                   /\ UNCHANGED <<entryIndex, examined, stepCounts, matchedEvents>>
              ELSE /\ entryIndex' = entryIndex + 1
                   /\ pc' = IF entryIndex + 1 = Len(entries) THEN "mode2end" ELSE "mode2"
                   /\ examined' = examined \cup {entryIndex + 1}
                   /\ IF cursorMatches(entries[entryIndex + 1], cur)
                      THEN /\ stepCounts' = CountMatch(stepCounts, cur)
                           /\ matchedEvents' = matchedEvents + 1
                      ELSE UNCHANGED <<stepCounts, matchedEvents>>
    /\ UNCHANGED otherVars
    /\ UNCHANGED <<fa, entries, max, calls, result, firstResult, countVars>>

\* After the mode 2 loop (lines 155-159).
NoEndOfLogCheck == conversionsFound

EndOfLogAlwaysCounts == conversionsFound + 1

EndOfLogConversions == IF currentStep >= NumSteps THEN conversionsFound + 1 ELSE conversionsFound

Mode2End ==
    /\ pc = "mode2end"
    /\ conversionsFound' = EndOfLogConversions
    /\ pc' = "finish"
    /\ UNCHANGED otherVars
    /\ UNCHANGED <<fa, entries, max, calls, entryIndex, stepCounts, matchedEvents,
                   currentStep, examined, result, firstResult, countVars>>

\* Lines 170-187.
StepResultsOfTotal(cnts) ==
    [i \in 1..Len(cnts) |->
        [Name |-> fa.Steps[i].Name,
         EventCount |-> cnts[i],
         Percentage |-> Percent(cnts[i], Len(entries))]]

StepResults(cnts) ==
    LET baseCount == IF Len(cnts) > 0 /\ cnts[1] > 0 THEN cnts[1] ELSE 0 IN
    [i \in 1..Len(cnts) |->
        [Name |-> fa.Steps[i].Name,
         EventCount |-> cnts[i],
         Percentage |-> IF baseCount > 0 THEN Percent(cnts[i], baseCount) ELSE Zero]]

\* Lines 189-213.
DropOffsUnfiltered(cnts) ==
    [i \in 1..(Len(cnts) - 1) |->
        [From |-> fa.Steps[i].Name,
         To |-> fa.Steps[i + 1].Name,
         EventsLost |-> cnts[i] - cnts[i + 1],
         DropOffRate |-> IF cnts[i] > 0 THEN Percent(cnts[i] - cnts[i + 1], cnts[i]) ELSE Zero]]

DropOffsRateOfKept(cnts) ==
    LET idx == SelectSeq([i \in 1..(Len(cnts) - 1) |-> i], LAMBDA i : cnts[i] > 0) IN
    [j \in 1..Len(idx) |->
        [From |-> fa.Steps[idx[j]].Name,
         To |-> fa.Steps[idx[j] + 1].Name,
         EventsLost |-> cnts[idx[j]] - cnts[idx[j] + 1],
         DropOffRate |-> Percent(cnts[idx[j] + 1], cnts[idx[j]])]]

DropOffs(cnts) ==
    LET idx == SelectSeq([i \in 1..(Len(cnts) - 1) |-> i], LAMBDA i : cnts[i] > 0) IN
    [j \in 1..Len(idx) |->
        [From |-> fa.Steps[idx[j]].Name,
         To |-> fa.Steps[idx[j] + 1].Name,
         EventsLost |-> cnts[idx[j]] - cnts[idx[j] + 1],
         DropOffRate |-> Percent(cnts[idx[j]] - cnts[idx[j] + 1], cnts[idx[j]])]]

\* Lines 215-232.
EntriesScanned(es) == entryIndex

TotalEvents(es) == Len(es)

Finish ==
    /\ pc = "finish"
    /\ result' = [valid |-> TRUE,
                  TotalEventsAnalyzed |-> TotalEvents(entries),
                  FunnelCompleted |-> conversionsFound > 0,
                  Steps |-> StepResults(stepCounts),
                  DropOffs |-> DropOffs(stepCounts)]
    /\ pc' = "done"
    /\ UNCHANGED otherVars
    /\ UNCHANGED <<fa, entries, max, calls, entryIndex, stepCounts, matchedEvents,
                   currentStep, conversionsFound, examined, firstResult, countVars>>

\* ------------------------------------------------------------ count
\* The loop of NewCountAnalyzer (funnel.go lines 204-222).
CompileSkippingInvalid(patternStrs) ==
    LET ok == SelectSeq(patternStrs, LAMBDA p : ~Compile(p).err) IN
    [err |-> FALSE,
     patterns |-> [i \in 1..Len(ok) |->
                     [Name |-> ok[i], Pattern |-> ok[i], Regex |-> Compile(ok[i]).re]]]

CompilePatterns(patternStrs) ==
    IF \E i \in 1..Len(patternStrs) : Compile(patternStrs[i]).err
    THEN [err |-> TRUE, patterns |-> <<>>]
    ELSE [err |-> FALSE,
          patterns |-> [i \in 1..Len(patternStrs) |->
                          [Name |-> patternStrs[i], Pattern |-> patternStrs[i],
                           Regex |-> Compile(patternStrs[i]).re]]]

NewCountAnalyzer ==
    /\ pc = "new"
    /\ \E ps \in SeqsUpTo(PatternPool, MaxPatterns) :
          /\ eventPatterns' = ps
          /\ caErr' = CompilePatterns(ps).err
          /\ ca' = IF CompilePatterns(ps).err THEN NilCA
                   ELSE [nil |-> FALSE, patterns |-> CompilePatterns(ps).patterns]
          /\ pc' = IF CompilePatterns(ps).err THEN "cfailed" ELSE "cready"
    /\ UNCHANGED otherVars
    /\ UNCHANGED <<entries, entryIndex, calls, funnelVars, counts, countResult,
                   firstCountResult>>

eventMatchesPatternMessageOnly(entry, pattern) ==
    MatchString(pattern.Regex, entry.Message)

eventMatchesPattern(entry, pattern) ==
    IF entry.HasData
    THEN IF entry.EventData["event"].kind # "absent"
         THEN IF entry.EventData["event"].kind = "string"
              THEN MatchString(pattern.Regex, entry.EventData["event"].s)
              ELSE FALSE
         ELSE MatchString(pattern.Regex, entry.Message)
    ELSE MatchString(pattern.Regex, entry.Message)

\* AnalyzeCount up to the first loop iteration (funnel.go lines 229-256).
InitialPatternCounts(n) == [i \in 1..n |-> 0]

EnterAnalyzeCount(es) ==
    /\ entries' = es
    /\ calls' = calls + 1
    /\ entryIndex' = 0
    /\ IF Len(es) = 0
       THEN /\ countResult' = [valid |-> TRUE, TotalEventsAnalyzed |-> 0,
                               PatternCounts |-> <<>>]
            /\ pc' = "cdone"
            /\ UNCHANGED counts
       ELSE /\ countResult' = NoCountResult
            /\ counts' = InitialPatternCounts(Len(ca.patterns))
            /\ pc' = "count"

AnalyzeCount ==
    /\ pc = "cready"
    /\ \E es \in SeqsUpTo(EntryPool, MaxEntries) : EnterAnalyzeCount(es)
    /\ UNCHANGED otherVars
    /\ UNCHANGED <<funnelVars, eventPatterns, ca, caErr, firstCountResult>>

\* A second call on the same analyzer with the same entries.
AnalyzeCountAgain ==
    /\ pc = "cdone"
    /\ calls < MaxCalls
    /\ firstCountResult' = countResult
    /\ EnterAnalyzeCount(entries)
    /\ UNCHANGED otherVars
    /\ UNCHANGED <<funnelVars, eventPatterns, ca, caErr>>

\* The inner loop over the patterns for one entry (funnel.go lines 260-271).
CountFirstMatchOnly(entry, cnts) ==
    [i \in 1..Len(ca.patterns) |->
        IF /\ eventMatchesPattern(entry, ca.patterns[i])
           /\ \A j \in 1..(i - 1) : ~eventMatchesPattern(entry, ca.patterns[j])
        THEN cnts[i] + 1 ELSE cnts[i]]

CountEntry(entry, cnts) ==
    [i \in 1..Len(ca.patterns) |->
        IF eventMatchesPattern(entry, ca.patterns[i]) THEN cnts[i] + 1 ELSE cnts[i]]

\* One iteration of the outer loop (funnel.go lines 259-272).
CountStep ==
    /\ pc = "count"
    /\ entryIndex < Len(entries)
    /\ counts' = CountEntry(entries[entryIndex + 1], counts)
    /\ entryIndex' = entryIndex + 1
    /\ pc' = IF entryIndex + 1 = Len(entries) THEN "cfinish" ELSE "count"
    /\ UNCHANGED otherVars
    /\ UNCHANGED <<entries, calls, funnelVars, eventPatterns, ca, caErr, countResult,
                   firstCountResult>>

\* funnel.go lines 243-256, 274-291: one record per analyzer pattern.
PatternCountsDeduplicated(patterns, cnts) ==
    LET idx == SelectSeq([i \in 1..Len(patterns) |-> i],
                         LAMBDA i : \A j \in 1..(i - 1) : patterns[j].Name # patterns[i].Name)
    IN [k \in 1..Len(idx) |-> [Pattern |-> patterns[idx[k]].Name, Count |-> cnts[idx[k]]]]

PatternCounts(patterns, cnts) ==
    [i \in 1..Len(patterns) |-> [Pattern |-> patterns[i].Name, Count |-> cnts[i]]]

CountFinish ==
    /\ pc = "cfinish"
    /\ countResult' = [valid |-> TRUE,
                       TotalEventsAnalyzed |-> Len(entries),
                       PatternCounts |-> PatternCounts(ca.patterns, counts)]
    /\ pc' = "cdone"
    /\ UNCHANGED otherVars
    /\ UNCHANGED <<entries, entryIndex, calls, funnelVars, eventPatterns, ca, caErr,
                   counts, firstCountResult>>

\* No Validate call is under way.
NoValidateResult == [err |-> FALSE, step |-> 0]
ValidateIdle ==
    /\ funnelConfig = [Name |-> <<>>, Steps |-> <<>>]
    /\ validatePc = "idle"
    /\ validateResult = NoValidateResult

\* No match call is under way.
MatchIdle ==
    /\ matchEntry = PlainEntry(sEmpty)
    /\ matchStep = [Name |-> 1, EventPattern |-> sEmpty, RequiredProperties |-> NoProps]
    /\ matchCalled = {}
    /\ stepMatched = FALSE
    /\ patternMatched = FALSE

\* ------------------------------------------------------------ parser text
\* Lines are sequences over the characters 1 7 x : { } " e v n t and the space.
Digits == {"1", "7"}
DigitValue(c) == IF c = "1" THEN 1 ELSE 7

RECURSIVE TrimLeft(_)
TrimLeft(s) == IF s # <<>> /\ Head(s) = " " THEN TrimLeft(Tail(s)) ELSE s
RECURSIVE TrimRight(_)
TrimRight(s) ==
    IF s # <<>> /\ s[Len(s)] = " " THEN TrimRight(SubSeq(s, 1, Len(s) - 1)) ELSE s
\* strings.TrimSpace
TrimSpace(s) == TrimRight(TrimLeft(s))

RECURSIVE DecimalValue(_)
DecimalValue(s) ==
    IF s = <<>> THEN 0
    ELSE DecimalValue(SubSeq(s, 1, Len(s) - 1)) * 10 + DigitValue(s[Len(s)])

\* strconv.Atoi on this alphabet: a non-empty run of digits, or an error.
Atoi(s) ==
    IF s # <<>> /\ \A i \in DOMAIN s : s[i] \in Digits
    THEN [err |-> FALSE, n |-> DecimalValue(s)]
    ELSE [err |-> TRUE, n |-> 0]

\* time.Time: the zero value, or the time time.Parse built from the seconds.
ZeroTime == [zero |-> TRUE, sec |-> 0]
\* time.Parse for the layout "5" (seconds): one or two digits below 60 and
\* nothing after them.
TimeParse(layout, value) ==
    IF /\ layout = "5"
       /\ Len(value) \in 1..2
       /\ \A i \in DOMAIN value : value[i] \in Digits
       /\ DecimalValue(value) < 60
    THEN [err |-> FALSE, t |-> [zero |-> FALSE, sec |-> DecimalValue(value)]]
    ELSE [err |-> TRUE, t |-> ZeroTime]

\* The pattern texts handed to NewPlainParserWithConfig.
DefaultPattern == "^(.*)$"
TwoGroups == "^([^:]*):(.*)$"
FourGroups == "^([^:]*):([^:]*):([^:]*):(.*)$"
SixGroups == "^([^:]*):([^:]*):([^:]*):([^:]*):([^:]*):(.*)$"
AfterX == "x(.*)$"
JustX == "x"
Unclosed == "("

\* regexp.MustCompile panics on a pattern that does not compile.
MustCompile(pattern) == [panics |-> pattern = Unclosed, text |-> pattern]

\* s cut at its first n - 1 colons: the n captures of ^([^:]*):...:(.*)$,
\* or <<>> when s has fewer colons.
RECURSIVE SplitColon(_, _)
SplitColon(s, n) ==
    IF n = 1 THEN <<s>>
    ELSE IF \E i \in DOMAIN s : s[i] = ":"
         THEN LET i == CHOOSE k \in DOMAIN s :
                          s[k] = ":" /\ \A j \in 1..(k - 1) : s[j] # ":"
                  rest == SplitColon(SubSeq(s, i + 1, Len(s)), n - 1)
              IN  IF rest = <<>> THEN <<>> ELSE <<SubSeq(s, 1, i - 1)>> \o rest
         ELSE <<>>

FirstX(s) == CHOOSE k \in DOMAIN s : s[k] = "x" /\ \A j \in 1..(k - 1) : s[j] # "x"

\* (*Regexp).FindStringSubmatch: the whole match followed by the captures,
\* <<>> (nil) when the expression does not match.
FindStringSubmatch(re, s) ==
    CASE re.text = DefaultPattern -> <<s, s>>
      [] re.text = TwoGroups ->
            IF SplitColon(s, 2) = <<>> THEN <<>> ELSE <<s>> \o SplitColon(s, 2)
      [] re.text = FourGroups ->
            IF SplitColon(s, 4) = <<>> THEN <<>> ELSE <<s>> \o SplitColon(s, 4)
      [] re.text = SixGroups ->
            IF SplitColon(s, 6) = <<>> THEN <<>> ELSE <<s>> \o SplitColon(s, 6)
      [] re.text = AfterX ->
            IF \E i \in DOMAIN s : s[i] = "x"
            THEN <<SubSeq(s, FirstX(s), Len(s)), SubSeq(s, FirstX(s) + 1, Len(s))>>
            ELSE <<>>
      [] re.text = JustX ->
            IF \E i \in DOMAIN s : s[i] = "x" THEN <<<<"x">>>> ELSE <<>>

\* The text {"event": in front of the value of a one-key object.
EventKeyOpen == <<"{", "\"", "e", "v", "e", "n", "t", "\"", ":">>

\* jsonStr without white space is {"event":N} for a run of digits N.
IsEventNumberObject(c) ==
    /\ Len(c) > Len(EventKeyOpen) + 1
    /\ SubSeq(c, 1, Len(EventKeyOpen)) = EventKeyOpen
    /\ c[Len(c)] = "}"
    /\ \A i \in (Len(EventKeyOpen) + 1)..(Len(c) - 1) : c[i] \in Digits

\* json.Unmarshal into a map[string]interface{} for the texts the lines
\* hold: {} is the empty object and {"event":N} the object whose "event" is
\* a number, each with any white space around and between its tokens; a bare
\* number is a type error and the other texts are syntax errors.
JSONUnmarshal(jsonStr) ==
    LET c == SelectSeq(jsonStr, LAMBDA ch : ch # " ") IN
    IF c = <<"{", "}">>
    THEN [err |-> FALSE, HasData |-> TRUE, EventData |-> [event |-> Absent, user |-> Absent]]
    ELSE IF IsEventNumberObject(c)
         THEN [err |-> FALSE, HasData |-> TRUE,
               EventData |-> [event |-> Number, user |-> Absent]]
         ELSE [err |-> TRUE, HasData |-> FALSE,
               EventData |-> [event |-> Absent, user |-> Absent]]

\* ------------------------------------------------------------ plain parser
NilParser ==
    [nil |-> TRUE, timestampFormat |-> "", eventRegex |-> MustCompile(DefaultPattern),
     jsonExtraction |-> FALSE, logLineRegex |-> MustCompile(DefaultPattern)]

TimestampFormats == {"", "5"}
LinePatterns == {"", JustX, TwoGroups, FourGroups, SixGroups, Unclosed}
EventPatterns == {"", AfterX, JustX}

\* An empty pattern argument stands for the default pattern (lines 298-306).
PatternOrDefault(pattern) == IF pattern = "" THEN DefaultPattern ELSE pattern

NewPlainParserWithConfig ==
    /\ parserPc = "new"
    /\ \E timestampFormat \in TimestampFormats, eventRegexPattern \in EventPatterns,
          jsonExtraction \in BOOLEAN, logLineRegexPattern \in LinePatterns :
          LET eventRegex == MustCompile(PatternOrDefault(eventRegexPattern))
              logLineRegex == MustCompile(PatternOrDefault(logLineRegexPattern))
          IN  IF eventRegex.panics \/ logLineRegex.panics
              THEN /\ parserPc' = "panic"
                   /\ UNCHANGED plainParser
              ELSE /\ parserPc' = "ready"
                   /\ plainParser' =
                         [nil |-> FALSE, timestampFormat |-> timestampFormat,
                          eventRegex |-> eventRegex, jsonExtraction |-> jsonExtraction,
                          logLineRegex |-> logLineRegex]
    /\ UNCHANGED <<parseArg, parseResult, reader, ioFailure, lineCount, parsedEntries,
                   readerResult>>
    /\ UNCHANGED <<analyzerVars, matchVars, validateVars>>

\* parser.LogEntry as Parse fills it.
NilEntry ==
    [Timestamp |-> ZeroTime, Level |-> <<>>, Tag |-> <<>>, PID |-> 0, TID |-> 0,
     Message |-> <<>>, HasData |-> FALSE, EventData |-> [event |-> Absent, user |-> Absent]]

\* Go's matches[k] is the (k+1)-th element here: the whole match comes first.
Group(matches, k) == matches[k + 1]

\* The timestamp group is parsed at all (line 356).
timestampTried(p, matches) ==
    Len(matches) > 1 /\ Group(matches, 1) # <<>> /\ p.timestampFormat # ""

\* Lines 356-365: the parsed time, or the zero time.
entryTimestamp(p, matches) ==
    IF timestampTried(p, matches) /\ ~TimeParse(p.timestampFormat, Group(matches, 1)).err
    THEN TimeParse(p.timestampFormat, Group(matches, 1)).t
    ELSE ZeroTime

\* Lines 356-365: entry.Message after the timestamp block.
timestampAsMessage(p, matches) ==
    IF timestampTried(p, matches) /\ TimeParse(p.timestampFormat, Group(matches, 1)).err
    THEN Group(matches, 1)
    ELSE <<>>

\* Lines 367-383: pid and tid (k = 2, 3).
entryNumber(matches, k) ==
    IF Len(matches) > k /\ Group(matches, k) # <<>> /\ ~Atoi(Group(matches, k)).err
    THEN Atoi(Group(matches, k)).n
    ELSE 0

\* Lines 385-391: level and tag (k = 4, 5).
entryText(matches, k) ==
    IF Len(matches) > k /\ Group(matches, k) # <<>> THEN Group(matches, k) ELSE <<>>

entryMessageSixthOnly(matches, message) ==
    IF Len(matches) > 6 /\ Group(matches, 6) # <<>>
    THEN Group(matches, 6)
    ELSE message

entryMessageLastGroup(matches, message) ==
    IF Len(matches) > 6 /\ Group(matches, 6) # <<>>
    THEN Group(matches, 6)
    ELSE IF Len(matches) > 1
         THEN matches[Len(matches)]
         ELSE message

\* Lines 393-398: message is entry.Message as the timestamp block left it.
entryMessage(matches, message) ==
    IF Len(matches) > 6 /\ Group(matches, 6) # <<>>
    THEN Group(matches, 6)
    ELSE IF Len(matches) > 1 /\ message = <<>>
         THEN matches[Len(matches)]
         ELSE message

\* tryParseJSON: the entry with EventData set, and whether it was.
tryParseJSON(entry, jsonStr) ==
    IF ~JSONUnmarshal(jsonStr).err
    THEN [ok |-> TRUE,
          entry |-> [entry EXCEPT !.HasData = JSONUnmarshal(jsonStr).HasData,
                                  !.EventData = JSONUnmarshal(jsonStr).EventData]]
    ELSE [ok |-> FALSE, entry |-> entry]

extractEventDataMessageFirst(p, entry, logLine) ==
    LET matches == FindStringSubmatch(p.eventRegex, logLine) IN
    IF tryParseJSON(entry, entry.Message).ok
    THEN tryParseJSON(entry, entry.Message).entry
    ELSE IF Len(matches) > 1
         THEN tryParseJSON(entry, TrimSpace(Group(matches, 1))).entry
         ELSE entry

\* extractEventData: the entry with EventData set from the event pattern's
\* first capture, else from the message, else as it was.
extractEventData(p, entry, logLine) ==
    LET matches == FindStringSubmatch(p.eventRegex, logLine) IN
    IF Len(matches) > 1 /\ tryParseJSON(entry, TrimSpace(Group(matches, 1))).ok
    THEN tryParseJSON(entry, TrimSpace(Group(matches, 1))).entry
    ELSE tryParseJSON(entry, entry.Message).entry

\* (*PlainParser).Parse: err, or the entry.
Parse(p, logLine) ==
    LET trimmedLine == TrimSpace(logLine)
        matches == FindStringSubmatch(p.logLineRegex, trimmedLine)
        entry ==
            [Timestamp |-> entryTimestamp(p, matches),
             Level |-> entryText(matches, 4),
             Tag |-> entryText(matches, 5),
             PID |-> entryNumber(matches, 2),
             TID |-> entryNumber(matches, 3),
             Message |-> entryMessage(matches, timestampAsMessage(p, matches)),
             HasData |-> FALSE,
             EventData |-> [event |-> Absent, user |-> Absent]]
    IN  IF trimmedLine = <<>>
        THEN [err |-> TRUE, entry |-> NilEntry]
        ELSE IF Len(matches) = 0
             THEN [err |-> TRUE, entry |-> NilEntry]
             ELSE [err |-> FALSE,
                   entry |-> IF p.jsonExtraction
                             THEN extractEventData(p, entry, logLine)
                             ELSE entry]

\* ------------------------------------------------------------ parser calls
MaxLines == 2

RECURSIVE Join(_)
\* Fields written one after the other with a colon between them.
Join(fields) ==
    IF Len(fields) = 1 THEN fields[1]
    ELSE fields[1] \o <<":">> \o Join(Tail(fields))

sX == <<"x">>
s1 == <<"1">>
s7 == <<"7">>
sObject == <<"{", "}">>
sEventObject == EventKeyOpen \o s7 \o <<"}">>

\* The lines the calls are given: blank ones, lines without a colon, lines
\* of two and of six fields with a timestamp field that parses ("1") or
\* does not ("x"), with and without text in the sixth field, and lines that
\* hold one or two objects.
LinePool ==
    { <<>>, <<" ">>, sX, s1 \o s7, <<" ">> \o sObject,
      sObject \o <<":">> \o sX \o sEventObject,
      Join(<<s1, sX>>), Join(<<sX, s7>>),
      Join(<<s1, s7, s7, sX, sX, sX \o sObject>>),
      Join(<<sX, s7, sX, sX, sX, s7>>),
      Join(<<sX, s7, s7, sX, sX, <<>>>>) }

NoParseResult == [err |-> FALSE, entry |-> NilEntry]
NoReaderResult == [returned |-> FALSE, err |-> FALSE, entries |-> <<>>]

ParserIdle ==
    /\ plainParser = NilParser
    /\ parserPc = "idle"
    /\ parseArg = <<>>
    /\ parseResult = NoParseResult
    /\ reader = <<>>
    /\ ioFailure = "none"
    /\ lineCount = 0
    /\ parsedEntries = <<>>
    /\ readerResult = NoReaderResult

ParserInit ==
    /\ FunnelInit
    /\ CountIdle
    /\ MatchIdle
    /\ ValidateIdle
    /\ plainParser = NilParser
    /\ parserPc = "new"
    /\ parseArg = <<>>
    /\ parseResult = NoParseResult
    /\ reader = <<>>
    /\ ioFailure = "none"
    /\ lineCount = 0
    /\ parsedEntries = <<>>
    /\ readerResult = NoReaderResult

\* p.Parse(logLine), called on its own
CallParse ==
    /\ parserPc = "ready"
    /\ \E logLine \in LinePool :
          /\ parseArg' = logLine
          /\ parseResult' = Parse(plainParser, logLine)
    /\ parserPc' = "parsed"
    /\ UNCHANGED <<plainParser, reader, ioFailure, lineCount, parsedEntries, readerResult>>
    /\ UNCHANGED <<analyzerVars, matchVars, validateVars>>

\* p.ParseFile(filepath): os.Open fails, or ParseReader starts on the file.
\* p.ParseReader(reader) on a stream is the second case.
ParseFile ==
    /\ parserPc = "ready"
    /\ \E content \in SeqsUpTo(LinePool, MaxLines), opens \in BOOLEAN :
          /\ reader' = content
          /\ IF opens
             THEN /\ parserPc' = "scan"
                  /\ UNCHANGED <<ioFailure, readerResult>>
             ELSE /\ parserPc' = "returned"
                  /\ ioFailure' = "open"
                  /\ readerResult' = [returned |-> TRUE, err |-> TRUE, entries |-> <<>>]
    /\ lineCount' = 0
    /\ parsedEntries' = <<>>
    /\ UNCHANGED <<plainParser, parseArg, parseResult>>
    /\ UNCHANGED <<analyzerVars, matchVars, validateVars>>

ScanResultStoppingAtError(p, acc, line) ==
    IF TrimSpace(line) = <<>> THEN acc
    ELSE IF Parse(p, line).err THEN <<>>
         ELSE Append(acc, Parse(p, line).entry)

\* The body of the scan loop (lines 491-507): entries after this line.
ScanResult(p, acc, line) ==
    IF TrimSpace(line) = <<>> THEN acc
    ELSE IF Parse(p, line).err THEN acc
         ELSE Append(acc, Parse(p, line).entry)

\* scanner.Scan() delivered a line
ScanLine ==
    /\ parserPc = "scan"
    /\ lineCount < Len(reader)
    /\ lineCount' = lineCount + 1
    /\ parsedEntries' = ScanResult(plainParser, parsedEntries, reader[lineCount + 1])
    /\ UNCHANGED <<plainParser, parserPc, parseArg, parseResult, reader, ioFailure,
                   readerResult>>
    /\ UNCHANGED <<analyzerVars, matchVars, validateVars>>

\* scanner.Scan() returned false at the end of the input, scanner.Err() is nil
ScanEnd ==
    /\ parserPc = "scan"
    /\ lineCount = Len(reader)
    /\ readerResult' = [returned |-> TRUE, err |-> FALSE, entries |-> parsedEntries]
    /\ parserPc' = "returned"
    /\ UNCHANGED <<plainParser, parseArg, parseResult, reader, ioFailure, lineCount,
                   parsedEntries>>
    /\ UNCHANGED <<analyzerVars, matchVars, validateVars>>

ReadErrorPartial(acc) == [returned |-> TRUE, err |-> TRUE, entries |-> acc]

\* Lines 510-513: return nil and the error.
ReadError(acc) == [returned |-> TRUE, err |-> TRUE, entries |-> <<>>]

\* scanner.Scan() returned false because the read failed
ScanFails ==
    /\ parserPc = "scan"
    /\ ioFailure' = "read"
    /\ readerResult' = ReadError(parsedEntries)
    /\ parserPc' = "returned"
    /\ UNCHANGED <<plainParser, parseArg, parseResult, reader, lineCount, parsedEntries>>
    /\ UNCHANGED <<analyzerVars, matchVars, validateVars>>

ParserNext ==
    \/ NewPlainParserWithConfig
    \/ CallParse
    \/ ParseFile
    \/ ScanLine
    \/ ScanEnd
    \/ ScanFails

SpecParser == ParserInit /\ [][ParserNext]_vars

\* ------------------------------------------------------------ funnel config
\* FunnelConfig.Validate.  A step's RequiredProperties is a set of
\* name/pattern pairs here, so that an empty property name can be written.
MaxConfigSteps == 100

DigitChars == <<"0", "1", "2", "3", "4", "5", "6", "7", "8", "9">>
RECURSIVE Decimal(_)
\* The decimal numeral of i: the name of the i-th step of a long funnel.
Decimal(i) ==
    IF i < 10 THEN <<DigitChars[i + 1]>>
    ELSE Decimal(i \div 10) \o <<DigitChars[(i % 10) + 1]>>

ConfigStep(name, pattern, props) ==
    [Name |-> name, EventPattern |-> pattern, RequiredProperties |-> props]

\* Two valid steps and one step for each way a step can be invalid.
ConfigStepPool ==
    { ConfigStep(sA, sA, {}),
      ConfigStep(sB, sB, {[name |-> "user", pat |-> sA]}),
      ConfigStep(<<>>, sA, {}),
      ConfigStep(sA \o sB, <<>>, {}),
      ConfigStep(sB \o sA, sBad, {}),
      ConfigStep(sA \o sA, sA, {[name |-> "", pat |-> sA]}),
      ConfigStep(sB \o sB, sA, {[name |-> "user", pat |-> <<>>]}),
      ConfigStep(sA \o sB \o sA, sA, {[name |-> "user", pat |-> sBad]}) }

\* n valid steps named 1, 2, ..., n with the k-th one replaced by step.
LongSteps(n, k, step) ==
    [i \in 1..n |-> IF i = k THEN step ELSE ConfigStep(Decimal(i), sA, {})]

ConfigStepsPool ==
    SeqsUpTo(ConfigStepPool, 2)
        \cup { LongSteps(n, k, step) :
                 n \in {MaxConfigSteps, MaxConfigSteps + 1},
                 k \in {2, MaxConfigSteps},
                 step \in ConfigStepPool \cup {ConfigStep(Decimal(1), sA, {})} }

ValidateInit ==
    /\ FunnelInit
    /\ CountIdle
    /\ MatchIdle
    /\ ParserIdle
    /\ funnelConfig \in [Name : {<<>>, sA}, Steps : ConfigStepsPool]
    /\ validatePc = "call"
    /\ validateResult = NoValidateResult

validateStepAllowingDuplicates(index, step, stepNames) ==
    IF step.Name = <<>> THEN TRUE
    ELSE IF step.EventPattern = <<>> THEN TRUE
    ELSE IF Compile(step.EventPattern).err THEN TRUE
    ELSE \E prop \in step.RequiredProperties :
            prop.name = "" \/ prop.pat = <<>> \/ Compile(prop.pat).err

\* validateStep returns an error (TRUE); stepNames are the names seen so far.
\* The properties are ranged over in no fixed order, and each one that is
\* invalid returns an error.
validateStep(index, step, stepNames) ==
    IF step.Name = <<>> THEN TRUE
    ELSE IF step.Name \in stepNames THEN TRUE
    ELSE IF step.EventPattern = <<>> THEN TRUE
    ELSE IF Compile(step.EventPattern).err THEN TRUE
    ELSE \E prop \in step.RequiredProperties :
            prop.name = "" \/ prop.pat = <<>> \/ Compile(prop.pat).err

RECURSIVE validateSteps(_, _, _)
\* The loop over c.Steps from the index-th step on (lines 305-316).
validateSteps(steps, index, stepNames) ==
    IF index > Len(steps) THEN NoValidateResult
    ELSE IF validateStep(index, steps[index], stepNames)
         THEN [err |-> TRUE, step |-> index]
         ELSE validateSteps(steps, index + 1, stepNames \cup {steps[index].Name})

\* (*FunnelConfig).Validate; step 0 stands for an error that names no step.
Validate(c) ==
    IF c.Name = <<>> THEN [err |-> TRUE, step |-> 0]
    ELSE IF Len(c.Steps) = 0 THEN [err |-> TRUE, step |-> 0]
    ELSE IF Len(c.Steps) > MaxConfigSteps THEN [err |-> TRUE, step |-> 0]
    ELSE validateSteps(c.Steps, 1, {})

\* c.Validate()
CallValidate ==
    /\ validatePc = "call"
    /\ validateResult' = Validate(funnelConfig)
    /\ validatePc' = "returned"
    /\ UNCHANGED funnelConfig
    /\ UNCHANGED <<analyzerVars, matchVars, parserVars>>

ValidateNext == CallValidate

SpecValidate == ValidateInit /\ [][ValidateNext]_vars

\* ------------------------------------------------------------ one match call
\* The match functions on their own: one entry and one step, each function
\* called once.  The entries cover a nil EventData and every combination of
\* a missing, string and non-string value under the keys "event" and "user".
MatchValues == {Absent, Number, Str(sA), Str(sB)}

MatchEntryPool ==
    {PlainEntry(m) : m \in {sA, sB}}
        \cup {DataEntry(m, ev, u) : m \in {sA, sB}, ev \in MatchValues, u \in MatchValues}

MatchStepPool ==
    {[Name |-> 1, EventPattern |-> p, RequiredProperties |-> [event |-> pe, user |-> pu]] :
        p \in PatternPool, pe \in {NoProp, Prop(sA)}, pu \in {NoProp, Prop(sA), Prop(sBad)}}

MatchInit ==
    /\ FunnelInit
    /\ CountIdle
    /\ matchEntry \in MatchEntryPool
    /\ matchStep \in MatchStepPool
    /\ matchCalled = {}
    /\ stepMatched = FALSE
    /\ patternMatched = FALSE
    /\ ParserIdle
    /\ ValidateIdle

\* fa.eventMatchesStep(entry, step)
CallEventMatchesStep ==
    /\ "step" \notin matchCalled
    /\ stepMatched' = eventMatchesStep(matchEntry, matchStep)
    /\ matchCalled' = matchCalled \cup {"step"}
    /\ UNCHANGED <<matchEntry, matchStep, patternMatched, analyzerVars, parserVars, validateVars>>

\* ca.eventMatchesPattern(entry, pattern) for the pattern NewCountAnalyzer
\* compiled from the step's pattern text; there is none if it does not compile.
CallEventMatchesPattern ==
    /\ "pattern" \notin matchCalled
    /\ ~CompilePatterns(<<matchStep.EventPattern>>).err
    /\ patternMatched' =
          eventMatchesPattern(matchEntry, CompilePatterns(<<matchStep.EventPattern>>).patterns[1])
    /\ matchCalled' = matchCalled \cup {"pattern"}
    /\ UNCHANGED <<matchEntry, matchStep, stepMatched, analyzerVars, parserVars, validateVars>>

MatchNext ==
    \/ CallEventMatchesStep
    \/ CallEventMatchesPattern

SpecMatch == MatchInit /\ [][MatchNext]_vars

\* ------------------------------------------------------------ system
Init == FunnelInit /\ CountIdle /\ MatchIdle /\ ParserIdle /\ ValidateIdle

Next ==
    \/ NewFunnelAnalyzer
    \/ AnalyzeFunnel
    \/ AnalyzeFunnelAgain
    \/ Mode1Step
    \/ Mode2Step
    \/ Mode2End
    \/ Finish
    \/ NewCountAnalyzer
    \/ AnalyzeCount
    \/ AnalyzeCountAgain
    \/ CountStep
    \/ CountFinish

Spec == Init /\ [][Next]_vars

\* ------------------------------------------------------------ two limits
\* The same analyzer run on the same entries twice: without a limit first,
\* then with any limit, so that the two results can be compared.
AnalyzeFunnelUnlimited ==
    /\ pc = "ready"
    /\ \E es \in SeqsUpTo(EntryPool, MaxEntries) : EnterAnalyzeFunnel(es, 0)
    /\ UNCHANGED otherVars
    /\ UNCHANGED <<fa, firstResult, countVars>>

AnalyzeFunnelWithLimit ==
    /\ pc = "done"
    /\ calls = 1
    /\ firstResult' = result
    /\ \E m \in Limits : EnterAnalyzeFunnel(entries, m)
    /\ UNCHANGED otherVars
    /\ UNCHANGED <<fa, countVars>>

NextCompare ==
    \/ NewFunnelAnalyzer
    \/ AnalyzeFunnelUnlimited
    \/ AnalyzeFunnelWithLimit
    \/ Mode1Step
    \/ Mode2Step
    \/ Mode2End
    \/ Finish

SpecCompare == Init /\ [][NextCompare]_vars

\* ------------------------------------------------------------ properties
InFunnelScan == pc \in {"mode1", "mode2"}
ScanStep == InFunnelScan /\ entryIndex' = entryIndex + 1
FunnelDone == pc = "done" /\ result.valid

\* The indices of S in increasing order visit the steps 1..n, 1..n, ... in order:
\* S is Cardinality(S) \div n consecutive in-order traversals in the entries.
Rank(S, x) == Cardinality({y \in S : y <= x})
InOrder(S) ==
    \A x \in S :
        eventMatchesStep(entries[x], fa.Steps[((Rank(S, x) - 1) % NumSteps) + 1])
Traversals(k) ==
    \E S \in SUBSET (1..Len(entries)) : Cardinality(S) = k * NumSteps /\ InOrder(S)

\* C1: the returned totalEventsAnalyzed is the number of entries passed in,
\* also when a capped scan stopped before the end of the input.
C1_TotalIsInputSize ==
    result.valid => result.TotalEventsAnalyzed = Len(entries)

C1_Witness ==
    /\ FunnelDone
    /\ max > 0
    /\ entryIndex < Len(entries)
    /\ result.TotalEventsAnalyzed = Len(entries)

\* C2: an iteration that consumes an entry changes the counts only when the
\* entry matches the step at the cursor: then exactly that step's count grows
\* by one and the cursor advances by one (mode 1 resets it to 0 when that
\* completes the funnel); otherwise counts and cursor stay.  The cursor at the
\* match is the cursor after the capped mode's pending reset.  The cursor
\* decreases only together with a recorded conversion.
C2_Cursor == IF currentStep >= NumSteps THEN 0 ELSE currentStep

C2_StepRule ==
    (ScanStep /\ NumSteps > 0) =>
        IF eventMatchesStep(entries[entryIndex + 1], fa.Steps[C2_Cursor + 1])
        THEN /\ stepCounts' = [stepCounts EXCEPT ![C2_Cursor + 1] = @ + 1]
             /\ currentStep' = IF pc = "mode1" /\ C2_Cursor + 1 = NumSteps
                               THEN 0 ELSE C2_Cursor + 1
        ELSE /\ stepCounts' = stepCounts
             /\ currentStep' = C2_Cursor

C2_NoBackward ==
    (InFunnelScan /\ currentStep' < currentStep) =>
        /\ conversionsFound' = conversionsFound + 1
        /\ pc = "mode1" => currentStep' = 0

C2_OnlyCursorStepCounts == [][C2_StepRule /\ C2_NoBackward]_vars

\* An entry that matches another step than the one at the cursor was skipped.
C2_Witness ==
    /\ InFunnelScan
    /\ NumSteps = 2
    /\ entryIndex = 1
    /\ currentStep = 0
    /\ stepCounts = <<0, 0>>
    /\ eventMatchesStep(entries[1], fa.Steps[2])
    /\ ~eventMatchesStep(entries[1], fa.Steps[1])

\* C3: in unlimited mode a conversion is recorded exactly when an entry matches
\* the last step at the cursor, the cursor is then 0, the loop ends only at the
\* last entry, and entries holding k consecutive in-order traversals give at
\* least k conversions and a count of at least k for every step.
C3_RecordAndReset ==
    (pc = "mode1" /\ NumSteps > 0) =>
        /\ conversionsFound' \in {conversionsFound, conversionsFound + 1}
        /\ (conversionsFound' = conversionsFound + 1) <=>
              /\ currentStep = NumSteps - 1
              /\ eventMatchesStep(entries[entryIndex + 1], fa.Steps[NumSteps])
        /\ (conversionsFound' = conversionsFound + 1) => currentStep' = 0
        /\ pc' = "finish" => entryIndex' = Len(entries)

C3_Repeats ==
    (FunnelDone /\ max = 0 /\ NumSteps > 0) =>
        \A k \in 1..Len(entries) :
            Traversals(k) =>
                /\ conversionsFound >= k
                /\ \A i \in 1..NumSteps : result.Steps[i].EventCount >= k

C3_UnlimitedRepeats == [][C3_RecordAndReset]_vars /\ []C3_Repeats

C3_Witness ==
    /\ FunnelDone
    /\ max = 0
    /\ NumSteps = 2
    /\ Traversals(2)
    /\ conversionsFound = 2
    /\ currentStep = 0

\* C4: in capped mode, once the last step's count (the completed traversals)
\* has reached the limit, no further entry is passed to eventMatchesStep and no
\* step count changes for the rest of the call; the count never passes the limit.
C4_Capped == pc \in {"mode2", "mode2end", "finish"} /\ max > 0 /\ NumSteps > 0

C4_Stopped ==
    (C4_Capped /\ stepCounts[NumSteps] >= max) =>
        /\ stepCounts' = stepCounts
        /\ examined' = examined
        /\ entryIndex' = entryIndex

C4_AtMostLimit == C4_Capped => stepCounts[NumSteps] <= max

C4_StopsAtLimit == [][C4_Stopped]_vars /\ []C4_AtMostLimit

\* The scan stopped in front of an entry that matches the first step.
C4_Witness ==
    /\ FunnelDone
    /\ max > 0
    /\ NumSteps > 0
    /\ entryIndex < Len(entries)
    /\ result.Steps[NumSteps].EventCount = max
    /\ eventMatchesStep(entries[entryIndex + 1], fa.Steps[1])
    /\ \A i \in examined : i <= entryIndex

\* C5: for a limit >= 0 and at least one step, funnelCompleted is true exactly
\* when the entries hold an in-order traversal of all steps; one that ends at
\* the final entry counts in capped mode too.
C5_CompletedIffConversion ==
    (FunnelDone /\ max >= 0 /\ NumSteps > 0) =>
        (result.FunnelCompleted <=> Traversals(1))

C5_Witness ==
    /\ FunnelDone
    /\ max > 0
    /\ NumSteps = 2
    /\ entryIndex = Len(entries)
    /\ examined = 1..Len(entries)
    /\ currentStep = NumSteps
    /\ result.Steps[NumSteps].EventCount = 1
    /\ result.FunnelCompleted

\* C6: the drop-off list has a record for the adjacent pair (i, i+1) exactly
\* when step i's count is greater than 0, and every record is for such a pair.
C6_HasRecord(i) ==
    \E j \in 1..Len(result.DropOffs) :
        /\ result.DropOffs[j].From = result.Steps[i].Name
        /\ result.DropOffs[j].To = result.Steps[i + 1].Name

C6_DropOffsForNonZero ==
    result.valid =>
        /\ \A i \in 1..(Len(result.Steps) - 1) :
              C6_HasRecord(i) <=> result.Steps[i].EventCount > 0
        /\ \A j \in 1..Len(result.DropOffs) :
              \E i \in 1..(Len(result.Steps) - 1) :
                  /\ result.DropOffs[j].From = result.Steps[i].Name
                  /\ result.DropOffs[j].To = result.Steps[i + 1].Name

C6_Witness ==
    /\ FunnelDone
    /\ Len(entries) > 0
    /\ NumSteps = 2
    /\ result.Steps[1].EventCount = 0
    /\ result.DropOffs = <<>>
    /\ examined # {}

\* C7: a second call on the same analyzer with the same entries returns what
\* the first call returned, and no step of a call changes the entries, the
\* steps, the limit or the compiled patterns.
C7_SameResult ==
    /\ (calls = 2 /\ pc = "done") => result = firstResult
    /\ (calls = 2 /\ pc = "cdone") => countResult = firstCountResult

C7_NoMutation ==
    calls >= 1 => (entries' = entries /\ fa' = fa /\ max' = max /\ ca' = ca)

C7_Idempotent == []C7_SameResult /\ [][C7_NoMutation]_vars

C7_Witness ==
    /\ calls = 2
    /\ FunnelDone
    /\ Len(entries) > 0
    /\ result.FunnelCompleted
    /\ result = firstResult

\* C8 as stated: for any entries the result has one record per supplied
\* pattern, in the supplied order.
C8_Ordered ==
    /\ Len(countResult.PatternCounts) = Len(eventPatterns)
    /\ \A i \in 1..Len(eventPatterns) :
          countResult.PatternCounts[i].Pattern = eventPatterns[i]

C8_Original == countResult.valid => C8_Ordered

\* C8 amended: for any non-empty entry sequence the result has one record per
\* supplied pattern, in the supplied order, duplicates included.
C8_OrderPreserved == (countResult.valid /\ Len(entries) > 0) => C8_Ordered

C8_Witness ==
    /\ pc = "cdone"
    /\ countResult.valid
    /\ Len(entries) > 0
    /\ eventPatterns = <<sA, sA>>
    /\ Len(countResult.PatternCounts) = 2
    /\ countResult.PatternCounts[2].Count > 0

\* C9 as stated: construction fails for a step list with an uncompilable
\* pattern, so no analyzer exists for one and no scan runs with one.
StepCompiles(step) ==
    /\ ~Compile(step.EventPattern).err
    /\ \A key \in PropKeys :
          step.RequiredProperties[key].has => ~Compile(step.RequiredProperties[key].pat).err

C10_AllOrNothing ==
    pc \in {"cready", "cfailed", "count", "cfinish", "cdone"} =>
        IF \E i \in 1..Len(eventPatterns) : Compile(eventPatterns[i]).err
        THEN caErr /\ ca.nil /\ pc = "cfailed"
        ELSE /\ ~caErr
             /\ ~ca.nil
             /\ Len(ca.patterns) = Len(eventPatterns)
             /\ \A i \in 1..Len(eventPatterns) :
                   /\ ca.patterns[i].Name = eventPatterns[i]
                   /\ ca.patterns[i].Pattern = eventPatterns[i]
                   /\ ca.patterns[i].Regex = Compile(eventPatterns[i]).re

C10_Witness ==
    /\ pc = "cfailed"
    /\ eventPatterns = <<sA, sBad>>
    /\ caErr
    /\ ca.nil

\* C11: a call with zero entries returns totalEventsAnalyzed = 0,
\* funnelCompleted = false and empty steps and dropOffs (AnalyzeFunnel, any
\* limit and step list), and totalEventsAnalyzed = 0 with an empty
\* patternCounts (AnalyzeCount, any pattern list).
C11_EmptyInput ==
    /\ (pc = "done" /\ Len(entries) = 0) =>
          /\ result.valid
          /\ result.TotalEventsAnalyzed = 0
          /\ ~result.FunnelCompleted
          /\ result.Steps = <<>>
          /\ result.DropOffs = <<>>
    /\ (pc = "cdone" /\ Len(entries) = 0) =>
          /\ countResult.valid
          /\ countResult.TotalEventsAnalyzed = 0
          /\ countResult.PatternCounts = <<>>

C11_Witness ==
    /\ pc = "done"
    /\ Len(entries) = 0
    /\ NumSteps = 2
    /\ max > 0
    /\ result.valid
    /\ result.Steps = <<>>

\* C12: for non-empty entries the count result's total is the number of
\* entries and each pattern's count is the number of entries that match it,
\* whatever the other patterns and the order of the entries.
C12_Matching(i) ==
    {j \in 1..Len(entries) : eventMatchesPattern(entries[j], ca.patterns[i])}

C12_CountsAreMatches ==
    (pc = "cdone" /\ Len(entries) > 0) =>
        /\ countResult.TotalEventsAnalyzed = Len(entries)
        /\ \A i \in 1..Len(countResult.PatternCounts) :
              countResult.PatternCounts[i].Count = Cardinality(C12_Matching(i))

\* Two patterns that both match an entry each count it.
C12_Witness ==
    /\ pc = "cdone"
    /\ Len(entries) >= 2
    /\ eventPatterns = <<sB, sB>>
    /\ countResult.PatternCounts[1].Count = 1
    /\ countResult.PatternCounts[2].Count = 1
    /\ C12_Matching(2) = {2}

\* C13: the drop-off records are, in step order, those of the adjacent pairs
\* whose earlier count is above 0, each with the two step names, the
\* difference of the counts and that difference as a percentage of the earlier
\* count; a pair without loss has eventsLost = 0 and dropOffRate = 0.
C13_Count(i) == result.Steps[i].EventCount

C14_Percentages ==
    (result.valid /\ Len(result.Steps) > 0) =>
        LET base == result.Steps[1].EventCount IN
        /\ \A i \in 1..Len(result.Steps) :
              LET pct == result.Steps[i].Percentage IN
              IF base > 0
              THEN pct.den > 0 /\ pct.num * base = result.Steps[i].EventCount * 100 * pct.den
              ELSE pct = Zero
        /\ base > 0 => result.Steps[1].Percentage = [num |-> 100, den |-> 1]

C14_Witness ==
    /\ FunnelDone
    /\ Len(entries) > 0
    /\ NumSteps = 2
    /\ result.Steps[1].EventCount = 2
    /\ result.Steps[1].Percentage = [num |-> 100, den |-> 1]
    /\ result.Steps[2].EventCount = 1
    /\ result.Steps[2].Percentage = [num |-> 50, den |-> 1]

\* ------------------------------------------------------------ match rules
\* A pattern text matches a string: it compiles and its expression matches.
PatternMatches(p, s) == ~Compile(p).err /\ MatchString(Compile(p).re, s)
StepCalled == "step" \in matchCalled
PatternCalled == "pattern" \in matchCalled
NoRequired(step) == \A k \in PropKeys : ~step.RequiredProperties[k].has

\* C15: for an entry with no structured data, eventMatchesStep returns true
\* if and only if the step's pattern matches the message and the step requires
\* no property; a step that requires any property does not match such an entry.
C15_UnstructuredRule ==
    (StepCalled /\ ~matchEntry.HasData) =>
        /\ stepMatched <=>
              /\ PatternMatches(matchStep.EventPattern, matchEntry.Message)
              /\ NoRequired(matchStep)
        /\ ~NoRequired(matchStep) => ~stepMatched

C15_Witness ==
    /\ StepCalled
    /\ ~matchEntry.HasData
    /\ PatternMatches(matchStep.EventPattern, matchEntry.Message)
    /\ ~NoRequired(matchStep)
    /\ ~stepMatched

\* C16: with structured data that has an "event" key, a string value lets the
\* step match only if the pattern matches that string, whatever the message
\* is, and a non-string value never matches; without an "event" key the
\* pattern is matched against the message.
C16_EventRule ==
    (StepCalled /\ matchEntry.HasData) =>
        LET ev == matchEntry.EventData["event"] IN
        /\ ev.kind = "string" =>
              /\ stepMatched => PatternMatches(matchStep.EventPattern, ev.s)
              /\ NoRequired(matchStep) =>
                    (stepMatched <=> PatternMatches(matchStep.EventPattern, ev.s))
        /\ ev.kind = "number" => ~stepMatched
        /\ ev.kind = "absent" =>
              /\ stepMatched => PatternMatches(matchStep.EventPattern, matchEntry.Message)
              /\ NoRequired(matchStep) =>
                    (stepMatched <=> PatternMatches(matchStep.EventPattern, matchEntry.Message))

C16_Witness ==
    /\ StepCalled
    /\ matchEntry.HasData
    /\ matchEntry.EventData["event"] = Str(sA)
    /\ matchEntry.Message = sB
    /\ matchStep.EventPattern = sB
    /\ NoRequired(matchStep)
    /\ ~stepMatched

\* The event/message match of an entry with structured data, stated from the
\* rule: the "event" string if there is one, the message if the key is missing.
C17_SubMatch ==
    LET ev == matchEntry.EventData["event"] IN
    IF ev.kind = "absent"
    THEN PatternMatches(matchStep.EventPattern, matchEntry.Message)
    ELSE ev.kind = "string" /\ PatternMatches(matchStep.EventPattern, ev.s)

C17_PropertyHolds(k) ==
    /\ matchEntry.EventData[k].kind = "string"
    /\ PatternMatches(matchStep.RequiredProperties[k].pat, matchEntry.EventData[k].s)

\* C17: when the event/message match of an entry with structured data
\* succeeds, the step matches if and only if every required key is present
\* with a string value its pattern matches; a missing key, a non-string
\* value, a mismatch and an uncompilable property pattern are non-matches,
\* and a step that requires nothing matches.
C17_RequiredProperties ==
    (StepCalled /\ matchEntry.HasData /\ C17_SubMatch) =>
        /\ stepMatched <=>
              \A k \in PropKeys : matchStep.RequiredProperties[k].has => C17_PropertyHolds(k)
        /\ NoRequired(matchStep) => stepMatched

C17_Witness ==
    /\ StepCalled
    /\ matchEntry.HasData
    /\ C17_SubMatch
    /\ matchStep.RequiredProperties["user"] = Prop(sA)
    /\ matchEntry.EventData["user"] = Absent
    /\ ~matchStep.RequiredProperties["event"].has
    /\ ~stepMatched

\* C18: for a pattern that compiles, eventMatchesPattern returns what
\* eventMatchesStep returns for a step with that pattern and no required
\* property when the entry has no structured data, and the funnel's
\* event/message match when it has.
C18_CountRuleIsFunnelRule ==
    PatternCalled =>
        /\ ~matchEntry.HasData =>
              patternMatched =
                 eventMatchesStep(matchEntry,
                    [Name |-> 1, EventPattern |-> matchStep.EventPattern,
                     RequiredProperties |-> NoProps])
        /\ matchEntry.HasData =>
              patternMatched = eventFieldMatches(matchEntry, Compile(matchStep.EventPattern).re)
        /\ (StepCalled /\ NoRequired(matchStep)) => patternMatched = stepMatched

C18_Witness ==
    /\ PatternCalled
    /\ StepCalled
    /\ matchEntry.HasData
    /\ matchEntry.EventData["event"] = Str(sA)
    /\ matchEntry.Message = sB
    /\ matchStep.EventPattern = sA
    /\ ~NoRequired(matchStep)
    /\ patternMatched
    /\ ~stepMatched

\* ------------------------------------------------------------ parser rules
\* The entries of the lines Parse accepts, in line order.
RECURSIVE C19_Accepted(_)
C19_Accepted(lines) ==
    IF lines = <<>> THEN <<>>
    ELSE (IF Parse(plainParser, Head(lines)).err
          THEN <<>>
          ELSE <<Parse(plainParser, Head(lines)).entry>>) \o C19_Accepted(Tail(lines))

\* C19: ParseReader / ParseFile return the entries of exactly the lines Parse
\* accepts, in line order, without error whatever lines were skipped (also
\* when none is left); when the file does not open or a read fails they
\* return an error and no entry.
C19_SkipsLinesPropagatesIO ==
    parserPc = "returned" =>
        /\ readerResult.returned
        /\ ioFailure = "none" =>
              /\ ~readerResult.err
              /\ readerResult.entries = C19_Accepted(reader)
        /\ ioFailure # "none" =>
              /\ readerResult.err
              /\ readerResult.entries = <<>>

C19_Witness ==
    /\ parserPc = "returned"
    /\ ioFailure = "none"
    /\ plainParser.logLineRegex.text = TwoGroups
    /\ reader = <<sX, Join(<<s1, sX>>)>>
    /\ Len(readerResult.entries) = 1
    /\ readerResult.entries[1].Message = sX

\* The captures of the line a direct Parse call was given.
C20_Matches == FindStringSubmatch(plainParser.logLineRegex, TrimSpace(parseArg))

\* Parse was called on a line whose timestamp group is non-empty and does not
\* parse with the configured format.
C20_TimestampFails ==
    /\ parserPc = "parsed"
    /\ TrimSpace(parseArg) # <<>>
    /\ Len(C20_Matches) > 1
    /\ C20_Matches[2] # <<>>
    /\ plainParser.timestampFormat # ""
    /\ TimeParse(plainParser.timestampFormat, C20_Matches[2]).err

\* C20 as claimed: when the timestamp group is non-empty, a format is
\* configured and the text does not parse, Parse returns an entry with the
\* zero timestamp whose message is the timestamp text.
C20_Original ==
    C20_TimestampFails =>
        /\ ~parseResult.err
        /\ parseResult.entry.Timestamp = ZeroTime
        /\ parseResult.entry.Message = C20_Matches[2]

\* C20, amended: in that case Parse returns an entry with the zero
\* timestamp; its message is the timestamp text unless the sixth group
\* captured text, which is then the message.
C20_FallbackUnlessMessageGroup ==
    C20_TimestampFails =>
        /\ ~parseResult.err
        /\ parseResult.entry.Timestamp = ZeroTime
        /\ parseResult.entry.Message =
              IF Len(C20_Matches) > 6 /\ C20_Matches[7] # <<>>
              THEN C20_Matches[7]
              ELSE C20_Matches[2]

C20_Witness ==
    /\ C20_TimestampFails
    /\ parseArg = Join(<<sX, s7>>)
    /\ Len(C20_Matches) = 3
    /\ ~parseResult.err
    /\ parseResult.entry.Message = sX

\* What Parse returns for the same line with extraction switched off.
C21_Plain == Parse([plainParser EXCEPT !.jsonExtraction = FALSE], parseArg)

\* The captures of the event-extraction pattern on the raw line.
C21_Captures == FindStringSubmatch(plainParser.eventRegex, parseArg)
C21_FromCapture ==
    /\ Len(C21_Captures) > 1
    /\ ~JSONUnmarshal(TrimSpace(C21_Captures[2])).err
C21_FromMessage == ~JSONUnmarshal(C21_Plain.entry.Message).err

\* C21: with extraction off the structured data is absent; with it on the
\* structured data is the object in the event pattern's first capture on the
\* raw line, else the object in the message, else absent; Parse fails on the
\* same lines either way and every other field is as without extraction.
C21_StructuredExtraction ==
    parserPc = "parsed" =>
        /\ parseResult.err = C21_Plain.err
        /\ ~parseResult.err =>
              /\ [parseResult.entry EXCEPT !.HasData = FALSE, !.EventData = NilEntry.EventData]
                    = C21_Plain.entry
              /\ ~plainParser.jsonExtraction => ~parseResult.entry.HasData
              /\ plainParser.jsonExtraction =>
                    IF C21_FromCapture
                    THEN /\ parseResult.entry.HasData
                         /\ parseResult.entry.EventData =
                               JSONUnmarshal(TrimSpace(C21_Captures[2])).EventData
                    ELSE IF C21_FromMessage
                         THEN /\ parseResult.entry.HasData
                              /\ parseResult.entry.EventData =
                                    JSONUnmarshal(C21_Plain.entry.Message).EventData
                         ELSE ~parseResult.entry.HasData

C21_Witness ==
    /\ parserPc = "parsed"
    /\ plainParser.jsonExtraction
    /\ ~parseResult.err
    /\ C21_FromCapture
    /\ C21_FromMessage
    /\ parseResult.entry.Message = sObject
    /\ parseResult.entry.EventData["event"] = Number

\* ------------------------------------------------------------ config rules
\* The i-th step of the funnel is as the configuration rules ask.
C22_StepValid(i) ==
    LET step == funnelConfig.Steps[i] IN
    /\ step.Name # <<>>
    /\ \A j \in 1..(i - 1) : funnelConfig.Steps[j].Name # step.Name
    /\ step.EventPattern # <<>>
    /\ ~Compile(step.EventPattern).err
    /\ \A prop \in step.RequiredProperties :
          prop.name # "" /\ prop.pat # <<>> /\ ~Compile(prop.pat).err

C22_FunnelValid ==
    /\ funnelConfig.Name # <<>>
    /\ Len(funnelConfig.Steps) >= 1
    /\ Len(funnelConfig.Steps) <= 100

\* C22: Validate succeeds if and only if the funnel has a name, between 1
\* and 100 steps, and every step has a name no earlier step has, a pattern
\* that is not empty and compiles, and required properties with non-empty
\* names and non-empty patterns that compile; when a step is at fault the
\* error is for the first such step of the list.
C22_ValidateRule ==
    validatePc = "returned" =>
        /\ ~validateResult.err <=>
              (C22_FunnelValid /\ \A i \in 1..Len(funnelConfig.Steps) : C22_StepValid(i))
        /\ (validateResult.err /\ C22_FunnelValid) =>
              /\ validateResult.step \in 1..Len(funnelConfig.Steps)
              /\ ~C22_StepValid(validateResult.step)
              /\ \A i \in 1..(validateResult.step - 1) : C22_StepValid(i)

C22_Witness ==
    /\ validatePc = "returned"
    /\ Len(funnelConfig.Steps) = 100
    /\ funnelConfig.Name # <<>>
    /\ funnelConfig.Steps[100].Name = <<"1">>
    /\ validateResult.err
    /\ validateResult.step = 100

\* ------------------------------------------------------------ limits compared
\* The second call has returned; firstResult is what the call without a
\* limit returned for the same steps and entries.
SecondDone == pc = "done" /\ calls = 2 /\ result.valid /\ firstResult.valid

\* The parts of a result the limit claims speak of.
SameOutcome(r1, r2) ==
    /\ r1.Steps = r2.Steps
    /\ r1.DropOffs = r2.DropOffs
    /\ r1.FunnelCompleted = r2.FunnelCompleted

\* C23: with a negative limit AnalyzeFunnel returns the step counts,
\* drop-offs and funnelCompleted it returns with limit 0 for the same steps
\* and entries (stated here for funnels that have a step).
C23_NegativeIsUnlimited ==
    (SecondDone /\ max < 0 /\ NumSteps >= 1) => SameOutcome(result, firstResult)

\* The conversions the call without a limit found: the count of the last step.
UnlimitedConversions ==
    IF Len(entries) = 0 \/ NumSteps = 0 THEN 0
    ELSE firstResult.Steps[NumSteps].EventCount

\* C26: for a funnel with a step, a limit above the number of conversions
\* the unlimited scan finds gives the step counts, percentages, drop-offs and
\* funnelCompleted of the unlimited scan.
C26_CapNotReached ==
    (SecondDone /\ NumSteps >= 1 /\ max > UnlimitedConversions) =>
        SameOutcome(result, firstResult)

C26_Witness ==
    /\ SecondDone
    /\ NumSteps = 2
    /\ max = 2
    /\ Len(entries) = 3
    /\ UnlimitedConversions = 1
    /\ firstResult.Steps[1].EventCount = 2
    /\ result.Steps[1].EventCount = 2
    /\ result.Steps[2].EventCount = 1

\* C27: in capped mode, when the entries hold at least limit conversions,
\* every step's count is the limit, every percentage 100 and every drop-off
\* loses nothing: a traversal begun after the last counted conversion is
\* not counted.
C27_CapReached ==
    (SecondDone /\ NumSteps >= 1 /\ max > 0 /\ UnlimitedConversions >= max) =>
        /\ \A i \in 1..NumSteps :
              /\ result.Steps[i].EventCount = max
              /\ result.Steps[i].Percentage = [num |-> 100, den |-> 1]
        /\ \A i \in 1..Len(result.DropOffs) : result.DropOffs[i].EventsLost = 0

C27_Witness ==
    /\ SecondDone
    /\ NumSteps = 2
    /\ max = 1
    /\ Len(entries) = 3
    /\ UnlimitedConversions = 1
    /\ firstResult.Steps[1].EventCount = 2
    /\ result.Steps[1].EventCount = 1
    /\ result.Steps[2].EventCount = 1

\* Parse returned an entry for a line whose pattern has fewer than six groups.
C24_FewGroups ==
    /\ parserPc = "parsed"
    /\ ~parseResult.err
    /\ Len(C20_Matches) < 7

\* The fields at positions the pattern has no group for are unset.
C24_LaterFieldsUnset ==
    /\ Len(C20_Matches) < 6 => parseResult.entry.Tag = <<>>
    /\ Len(C20_Matches) < 5 => parseResult.entry.Level = <<>>
    /\ Len(C20_Matches) < 4 => parseResult.entry.TID = 0
    /\ Len(C20_Matches) < 3 => parseResult.entry.PID = 0

C24_DefaultPattern == plainParser.logLineRegex.text = DefaultPattern

\* C24 as claimed: with fewer than six groups the later fields are unset and
\* the message is the last capture group; with the default pattern the
\* message is the whole trimmed line and every other field is empty or zero.
C24_Original ==
    C24_FewGroups =>
        /\ C24_LaterFieldsUnset
        /\ Len(C20_Matches) > 1 =>
              parseResult.entry.Message = C20_Matches[Len(C20_Matches)]
        /\ C24_DefaultPattern =>
              /\ parseResult.entry.Message = TrimSpace(parseArg)
              /\ parseResult.entry.Timestamp = ZeroTime
              /\ parseResult.entry.PID = 0 /\ parseResult.entry.TID = 0
              /\ parseResult.entry.Level = <<>> /\ parseResult.entry.Tag = <<>>

\* The first group is non-empty, a format is configured and the group does
\* not parse with it.
C24_TimestampFails ==
    /\ Len(C20_Matches) > 1
    /\ C20_Matches[2] # <<>>
    /\ plainParser.timestampFormat # ""
    /\ TimeParse(plainParser.timestampFormat, C20_Matches[2]).err

\* C24, amended: the later fields are unset; the message is the last capture
\* group unless the timestamp did not parse, when it is the timestamp text,
\* and is empty for a pattern without a group; with the default pattern the
\* message is the whole trimmed line and every other field is empty or zero,
\* but for the timestamp when a format is configured and the line parses
\* with it.
C24_FewerGroups ==
    C24_FewGroups =>
        /\ C24_LaterFieldsUnset
        /\ parseResult.entry.Message =
              IF Len(C20_Matches) = 1 THEN <<>>
              ELSE IF C24_TimestampFails THEN C20_Matches[2]
              ELSE C20_Matches[Len(C20_Matches)]
        /\ C24_DefaultPattern =>
              /\ parseResult.entry.Message = TrimSpace(parseArg)
              /\ parseResult.entry.Timestamp =
                    IF plainParser.timestampFormat # ""
                       /\ ~TimeParse(plainParser.timestampFormat, TrimSpace(parseArg)).err
                    THEN TimeParse(plainParser.timestampFormat, TrimSpace(parseArg)).t
                    ELSE ZeroTime
              /\ parseResult.entry.PID = 0 /\ parseResult.entry.TID = 0
              /\ parseResult.entry.Level = <<>> /\ parseResult.entry.Tag = <<>>

C24_Witness ==
    /\ C24_FewGroups
    /\ plainParser.logLineRegex.text = TwoGroups
    /\ plainParser.timestampFormat = ""
    /\ parseArg = Join(<<sX, s7>>)
    /\ parseResult.entry.Message = s7
    /\ parseResult.entry.PID = 7
    /\ parseResult.entry.TID = 0
    /\ parseResult.entry.Level = <<>>

\* ------------------------------------------------------------ count shape
\* The loop of either mode is running or has just been left; in capped mode
\* the check after the loop has not yet been made.
C25_InScan ==
    \/ pc \in {"mode1", "mode2", "mode2end"}
    \/ pc = "finish" /\ max = 0

\* C25: for a funnel with a step, at every point of the scan each step's
\* count is the number of conversions so far, plus one for the steps before
\* the cursor; so in every result the counts do not increase along the
\* funnel, neighbours differ by at most 1, a drop-off loses 0 or 1 and no
\* percentage is above 100.
C25_CountsFollowCursor ==
    /\ (C25_InScan /\ NumSteps >= 1) =>
          \A i \in 1..NumSteps :
             stepCounts[i] = conversionsFound + (IF i - 1 < currentStep THEN 1 ELSE 0)
    /\ (FunnelDone /\ NumSteps >= 1 /\ Len(entries) > 0) =>
          /\ \A i \in 1..(NumSteps - 1) :
                /\ result.Steps[i + 1].EventCount <= result.Steps[i].EventCount
                /\ result.Steps[i].EventCount - result.Steps[i + 1].EventCount <= 1
          /\ \A i \in 1..Len(result.DropOffs) : result.DropOffs[i].EventsLost \in {0, 1}
          /\ \A i \in 1..NumSteps :
                result.Steps[i].Percentage.num <= 100 * result.Steps[i].Percentage.den

C25_Witness ==
    /\ pc = "mode2"
    /\ NumSteps = 2
    /\ conversionsFound = 1
    /\ currentStep = 1
    /\ stepCounts = <<2, 1>>

\* C28: for a funnel with a step and any limit, funnelCompleted is true if
\* and only if the last step's count is above 0 (the result for no entries
\* has no step records and is not completed).
C28_CompletedIffLastStepCounted ==
    (FunnelDone /\ NumSteps >= 1) =>
        IF Len(entries) = 0
        THEN ~result.FunnelCompleted /\ result.Steps = <<>>
        ELSE result.FunnelCompleted <=> result.Steps[NumSteps].EventCount > 0

C28_Witness ==
    /\ FunnelDone
    /\ NumSteps = 2
    /\ max = 1
    /\ Len(entries) = 2
    /\ result.FunnelCompleted
    /\ result.Steps[2].EventCount = 1

RECURSIVE SumCounts(_)
SumCounts(cnts) == IF cnts = <<>> THEN 0 ELSE Head(cnts) + SumCounts(Tail(cnts))

\* C29: an entry is counted for at most one step: the step counts sum to at
\* most the number of entries the scan has examined, which is at most
\* totalEventsAnalyzed in the result.
C29_OneStepPerEntry ==
    /\ (pc \in {"mode1", "mode2", "mode2end", "finish"}) =>
          SumCounts(stepCounts) <= Cardinality(examined)
    /\ (FunnelDone /\ Len(entries) > 0) =>
          /\ SumCounts([i \in 1..Len(result.Steps) |-> result.Steps[i].EventCount])
                <= Cardinality(examined)
          /\ Cardinality(examined) <= result.TotalEventsAnalyzed

C29_Witness ==
    /\ FunnelDone
    /\ NumSteps = 2
    /\ Len(entries) = 4
    /\ Cardinality(examined) = 4
    /\ result.Steps[1].EventCount = 2
    /\ result.Steps[2].EventCount = 2

\* C30: for a funnel with no step and at least one entry, AnalyzeFunnel
\* never indexes past the end of the step list, whatever the limit, and
\* returns funnelCompleted false with no steps and no drop-offs.
C30_EmptyFunnelTerminates ==
    (~fa.nil /\ NumSteps = 0 /\ Len(entries) > 0) =>
        /\ pc # "panic"
        /\ pc = "done" =>
              /\ ~result.FunnelCompleted
              /\ result.Steps = <<>>
              /\ result.DropOffs = <<>>
====
